---- MODULE Spec2Model ----
(***************************************************************************)
(* Model of the contribution store of src/storage.rs: a facade over a      *)
(* pooled SQLite connection with four operations on the table              *)
(* contributors(uid, started_at, finished_at, expired_at).                 *)
(*                                                                         *)
(* Every operation is an async fn.  Its first poll builds the query, and   *)
(* the mutations read the wall clock (Utc::now()) while doing so; the      *)
(* statement itself executes later, after the call has acquired a pool     *)
(* connection.  Each operation is therefore two steps: the call (query     *)
(* built, clock read) and the completion (statement executed, result       *)
(* mapped, value returned to the caller).                                  *)
(***************************************************************************)
EXTENDS Integers, Sequences, FiniteSets, Bags, TLC

\* ---- bounds of the model ----
NumUids == 2
MaxClock == 1
MaxCalls == 3

Uids == 1..NumUids

\* SQL NULL of the nullable timestamp columns
NULL == -1

VARIABLES
    table,          \* the contributors table: sequence of rows in rowid order
    uid_unique,     \* schema: does the migration declare uid unique?
    clock,          \* the wall clock read by Utc::now()
    call,           \* the calls in flight (futures suspended at .await): a bag of queries
    ncalls,         \* number of calls made so far
    last,           \* the call that returned most recently and what it returned
    insertCalled,   \* history: insert_contributor(uid) has been called
    insertOk,       \* history: an insert_contributor(uid) has succeeded
    finishSince,    \* history: a finish_contribution(uid) was in flight at or after the first insert call
    expireSince     \* history: an expire_contribution(uid) was in flight at or after the first insert call

vars == <<table, uid_unique, clock, call, ncalls, last, insertCalled, insertOk, finishSince, expireSince>>

\* the future of a call after its first poll: the query it built
Query(op, u, ts) == [op |-> op, uid |-> u, ts |-> ts]

NoStep == [kind |-> "none", op |-> "none", uid |-> 0, ok |-> TRUE, result |-> "none", affected |-> 0]

\* ---- the SQL statements ----

\* rows WHERE uid = ?
Matching(t, uid) == {i \in 1..Len(t) : t[i].uid = uid}

\* SELECT EXISTS(SELECT 1 FROM contributors WHERE uid = ?1)
SelectExists(t, uid) == \E i \in 1..Len(t) : t[i].uid = uid

\* INSERT INTO contributors (uid, started_at) VALUES (?1, ?2)
InsertSql(t, uid, ts) ==
    Append(t, [uid |-> uid, started_at |-> ts, finished_at |-> NULL, expired_at |-> NULL])

\* variants of the finished_at update with a plausible slip each
FinishSql_upsert(t, uid, ts) ==
    IF \E i \in 1..Len(t) : t[i].uid = uid
    THEN [i \in 1..Len(t) |-> IF t[i].uid = uid THEN [t[i] EXCEPT !.finished_at = ts] ELSE t[i]]
    ELSE Append(t, [uid |-> uid, started_at |-> ts, finished_at |-> ts, expired_at |-> NULL])

FinishSql_first(t, uid, ts) ==
    [i \in 1..Len(t) |->
        IF t[i].uid = uid /\ (\A j \in 1..(i - 1) : t[j].uid # uid)
        THEN [t[i] EXCEPT !.finished_at = ts] ELSE t[i]]

FinishSql_wrongcol(t, uid, ts) ==
    [i \in 1..Len(t) |-> IF t[i].uid = uid THEN [t[i] EXCEPT !.expired_at = ts] ELSE t[i]]

FinishSql_guarded(t, uid, ts) ==
    [i \in 1..Len(t) |->
        IF t[i].uid = uid /\ t[i].expired_at = NULL THEN [t[i] EXCEPT !.finished_at = ts] ELSE t[i]]

FinishSql_nowhere(t, uid, ts) ==
    [i \in 1..Len(t) |-> [t[i] EXCEPT !.finished_at = ts]]

\* UPDATE contributors SET finished_at = ?1 WHERE uid = ?2
FinishSql(t, uid, ts) ==
    [i \in 1..Len(t) |-> IF t[i].uid = uid THEN [t[i] EXCEPT !.finished_at = ts] ELSE t[i]]

\* variants of the expired_at update with a plausible slip each
ExpireSql_delete(t, uid, ts) == SelectSeq(t, LAMBDA r : r.uid # uid)

ExpireSql_upsert(t, uid, ts) ==
    IF \E i \in 1..Len(t) : t[i].uid = uid
    THEN [i \in 1..Len(t) |-> IF t[i].uid = uid THEN [t[i] EXCEPT !.expired_at = ts] ELSE t[i]]
    ELSE Append(t, [uid |-> uid, started_at |-> ts, finished_at |-> NULL, expired_at |-> ts])

ExpireSql_wrongcol(t, uid, ts) ==
    [i \in 1..Len(t) |-> IF t[i].uid = uid THEN [t[i] EXCEPT !.finished_at = ts] ELSE t[i]]

\* UPDATE contributors SET expired_at = ?1 WHERE uid = ?2
ExpireSql(t, uid, ts) ==
    [i \in 1..Len(t) |-> IF t[i].uid = uid THEN [t[i] EXCEPT !.expired_at = ts] ELSE t[i]]

\* ---- what the caller gets back ----

\* variant that absorbs the failure the way the mutations do
HasContributedResult_swallow(ok, t, uid) ==
    IF ok /\ (\E i \in 1..Len(t) : t[i].uid = uid) THEN "true" ELSE "false"

\* .map(|row| row.get(0)).map_err(StorageError::DatabaseError)
HasContributedResult(ok, t, uid) ==
    IF ok THEN (IF SelectExists(t, uid) THEN "true" ELSE "false") ELSE "DatabaseError"

\* .ok(): the Result of execute is turned into an Option and dropped
MutationResult(ok) == "unit"

\* the insert violates the uniqueness constraint, when the schema has one
ConstraintViolation(t, uid) == uid_unique /\ SelectExists(t, uid)

Init ==
    /\ table = <<>>
    /\ uid_unique \in BOOLEAN
    /\ clock = 0
    /\ call = EmptyBag
    /\ ncalls = 0
    /\ last = NoStep
    /\ insertCalled = [u \in Uids |-> FALSE]
    /\ insertOk = [u \in Uids |-> FALSE]
    /\ finishSince = [u \in Uids |-> FALSE]
    /\ expireSince = [u \in Uids |-> FALSE]

Pending(op, u) == \E c \in BagToSet(call) : c.op = op /\ c.uid = u

\* the wall clock advances; it never goes backwards
Tick ==
    /\ clock < MaxClock
    /\ clock' = clock + 1
    /\ UNCHANGED <<table, uid_unique, call, ncalls, last, insertCalled, insertOk, finishSince, expireSince>>

\* ---- first poll of each async fn: the query is built, then the task awaits ----

has_contributed_call(u) ==
    /\ ncalls < MaxCalls
    /\ ncalls' = ncalls + 1
    /\ call' = call (+) SetToBag({Query("has_contributed", u, 0)})
    /\ UNCHANGED <<table, uid_unique, clock, last, insertCalled, insertOk, finishSince, expireSince>>

insert_contributor_call(u) ==
    /\ ncalls < MaxCalls
    /\ ncalls' = ncalls + 1
    /\ call' = call (+) SetToBag({Query("insert", u, clock)})
    /\ insertCalled' = [insertCalled EXCEPT ![u] = TRUE]
    /\ finishSince' = [finishSince EXCEPT ![u] = @ \/ Pending("finish", u)]
    /\ expireSince' = [expireSince EXCEPT ![u] = @ \/ Pending("expire", u)]
    /\ UNCHANGED <<table, uid_unique, clock, last, insertOk>>

finish_contribution_call(u) ==
    /\ ncalls < MaxCalls
    /\ ncalls' = ncalls + 1
    /\ call' = call (+) SetToBag({Query("finish", u, clock)})
    /\ finishSince' = [finishSince EXCEPT ![u] = @ \/ insertCalled[u]]
    /\ UNCHANGED <<table, uid_unique, clock, last, insertCalled, insertOk, expireSince>>

expire_contribution_call(u) ==
    /\ ncalls < MaxCalls
    /\ ncalls' = ncalls + 1
    /\ call' = call (+) SetToBag({Query("expire", u, clock)})
    /\ expireSince' = [expireSince EXCEPT ![u] = @ \/ insertCalled[u]]
    /\ UNCHANGED <<table, uid_unique, clock, last, insertCalled, insertOk, finishSince>>

\* ---- the statement executes (or the database fails) and the fn returns ----

Returned(op, u, ok, result, affected) ==
    [kind |-> "return", op |-> op, uid |-> u, ok |-> ok, result |-> result, affected |-> affected]

has_contributed_return(c) ==
    /\ c.op = "has_contributed"
    /\ \E ok \in BOOLEAN :
        last' = Returned("has_contributed", c.uid, ok, HasContributedResult(ok, table, c.uid), 0)
    /\ call' = call (-) SetToBag({c})
    /\ UNCHANGED <<ncalls, table, uid_unique, clock, insertCalled, insertOk, finishSince, expireSince>>

insert_contributor_return(c) ==
    /\ c.op = "insert"
    /\ LET u == c.uid IN
       \E ok \in BOOLEAN :
        /\ ok => ~ConstraintViolation(table, u)
        /\ table' = IF ok THEN InsertSql(table, u, c.ts) ELSE table
        /\ insertOk' = [insertOk EXCEPT ![u] = @ \/ ok]
        /\ last' = Returned("insert", u, ok, MutationResult(ok), IF ok THEN 1 ELSE 0)
    /\ call' = call (-) SetToBag({c})
    /\ UNCHANGED <<ncalls, uid_unique, clock, insertCalled, finishSince, expireSince>>

finish_contribution_return(c) ==
    /\ c.op = "finish"
    /\ LET u == c.uid IN
       \E ok \in BOOLEAN :
        /\ table' = IF ok THEN FinishSql(table, u, c.ts) ELSE table
        /\ last' = Returned("finish", u, ok, MutationResult(ok),
                            IF ok THEN Cardinality(Matching(table, u)) ELSE 0)
    /\ call' = call (-) SetToBag({c})
    /\ UNCHANGED <<ncalls, uid_unique, clock, insertCalled, insertOk, finishSince, expireSince>>

expire_contribution_return(c) ==
    /\ c.op = "expire"
    /\ LET u == c.uid IN
       \E ok \in BOOLEAN :
        /\ table' = IF ok THEN ExpireSql(table, u, c.ts) ELSE table
        /\ last' = Returned("expire", u, ok, MutationResult(ok),
                            IF ok THEN Cardinality(Matching(table, u)) ELSE 0)
    /\ call' = call (-) SetToBag({c})
    /\ UNCHANGED <<ncalls, uid_unique, clock, insertCalled, insertOk, finishSince, expireSince>>

Next ==
    \/ Tick
    \/ \E u \in Uids : has_contributed_call(u)
    \/ \E u \in Uids : insert_contributor_call(u)
    \/ \E u \in Uids : finish_contribution_call(u)
    \/ \E u \in Uids : expire_contribution_call(u)
    \/ \E c \in BagToSet(call) : has_contributed_return(c)
    \/ \E c \in BagToSet(call) : insert_contributor_return(c)
    \/ \E c \in BagToSet(call) : finish_contribution_return(c)
    \/ \E c \in BagToSet(call) : expire_contribution_return(c)

Spec == Init /\ [][Next]_vars

\* ---- the properties ----

\* the step is the return of the call in flight c
ReturnStep(c) == call' = call (-) SetToBag({c})

Updates == {"finish", "expire"}

\* C1: for a uid for which insert_contributor was never called, the table
\* holds no row and has_contributed answers false, whatever finish and expire
\* calls were made for it and whatever was done for the other uids.
C1_NeverInsertedIsFalse ==
    /\ \A u \in Uids : ~insertCalled[u] => HasContributedResult(TRUE, table, u) = "false"
    /\ (last.op = "has_contributed" /\ last.ok /\ ~insertCalled[last.uid]) => last.result = "false"

\* C1 witness: has_contributed has answered for a never-inserted uid while
\* another uid has a row
C1_Witness ==
    /\ last.op = "has_contributed" /\ last.ok /\ ~insertCalled[last.uid]
    /\ Len(table) > 0

\* C2: once insert_contributor(uid) has succeeded, a row for uid exists in
\* every later state, so every later successful has_contributed(uid) is true.
C2_InsertedStaysTrue ==
    /\ \A u \in Uids : insertOk[u] => HasContributedResult(TRUE, table, u) = "true"
    /\ (last.op = "has_contributed" /\ last.ok /\ insertOk[last.uid]) => last.result = "true"

\* C2 witness: has_contributed has answered for an inserted uid whose row has
\* since been finished or expired
C2_Witness ==
    /\ last.op = "has_contributed" /\ last.ok /\ insertOk[last.uid]
    /\ \E i \in 1..Len(table) :
        table[i].uid = last.uid /\ (table[i].finished_at # NULL \/ table[i].expired_at # NULL)

\* C3: in every row started_at <= finished_at when finished_at is set and
\* started_at <= expired_at when expired_at is set, for every interleaving of
\* concurrent calls.
C3_TimestampsOrdered ==
    \A i \in 1..Len(table) :
        /\ table[i].finished_at # NULL => table[i].started_at <= table[i].finished_at
        /\ table[i].expired_at # NULL => table[i].started_at <= table[i].expired_at

\* C4: when the database fails, has_contributed returns DatabaseError, the
\* three mutations return normally with no error, and the table is left as
\* it was.
C4_FailureContract ==
    [][\A c \in BagToSet(call) : (ReturnStep(c) /\ ~last'.ok) =>
            /\ table' = table
            /\ last'.op = c.op
            /\ last'.result = IF c.op = "has_contributed" THEN "DatabaseError" ELSE "unit"]_vars

\* C4 witness: a has_contributed has failed against a non-empty table
C4_Witness ==
    /\ last.op = "has_contributed" /\ ~last.ok /\ last.result = "DatabaseError"
    /\ Len(table) > 0

\* C5: finish_contribution(uid) or expire_contribution(uid) on a table with no
\* row for uid leaves the table unchanged, returns no error, and
\* has_contributed(uid) is still false.
C5_UpdateWithoutRow ==
    [][\A c \in BagToSet(call) :
        (ReturnStep(c) /\ c.op \in Updates /\ ~SelectExists(table, c.uid)) =>
            /\ table' = table
            /\ last'.result = "unit"
            /\ HasContributedResult(TRUE, table', c.uid) = "false"]_vars

\* C5 witness: an update has succeeded on a uid with no row while the table
\* holds rows of another uid
C5_Witness ==
    /\ last.op \in Updates /\ last.ok /\ last.affected = 0
    /\ Len(table) > 0
    /\ ~SelectExists(table, last.uid)

C7_InsertThenFinish ==
    (last.op = "finish" /\ last.ok /\ insertOk[last.uid] /\ ~expireSince[last.uid]) =>
        /\ SelectExists(table, last.uid)
        /\ \A i \in Matching(table, last.uid) :
            table[i].finished_at # NULL /\ table[i].expired_at = NULL

\* C7 witness: insert then finish, no expire
C7_Witness ==
    /\ last.op = "finish" /\ last.ok /\ insertOk[last.uid] /\ ~expireSince[last.uid]
    /\ \E i \in 1..Len(table) :
        table[i].uid = last.uid /\ table[i].finished_at # NULL /\ table[i].expired_at = NULL

\* C8: after an insert of uid has succeeded, a successful expire of uid with
\* no finish of uid in flight since the first insert call leaves the rows of
\* uid with expired_at set and finished_at null.
C8_InsertThenExpire ==
    (last.op = "expire" /\ last.ok /\ insertOk[last.uid] /\ ~finishSince[last.uid]) =>
        /\ SelectExists(table, last.uid)
        /\ \A i \in Matching(table, last.uid) :
            table[i].expired_at # NULL /\ table[i].finished_at = NULL

\* C8 witness: insert then expire, no finish
C8_Witness ==
    /\ last.op = "expire" /\ last.ok /\ insertOk[last.uid] /\ ~finishSince[last.uid]
    /\ \E i \in 1..Len(table) :
        table[i].uid = last.uid /\ table[i].expired_at # NULL /\ table[i].finished_at = NULL

\* C9: no exclusivity between the terminal outcomes: a successful finish
\* (expire) writes finished_at (expired_at) of every row of the uid whatever
\* the other column holds, and no step ever clears a column that is set.
C9_NoExclusivity ==
    [][/\ \A i \in 1..Len(table) :
            /\ i <= Len(table')
            /\ table[i].finished_at # NULL => table'[i].finished_at # NULL
            /\ table[i].expired_at # NULL => table'[i].expired_at # NULL
       /\ \A c \in BagToSet(call) : (ReturnStep(c) /\ c.op \in Updates /\ last'.ok) =>
            \A i \in Matching(table, c.uid) :
                IF c.op = "finish"
                THEN table'[i].finished_at # NULL
                ELSE table'[i].expired_at # NULL]_vars

\* C9 witness: a finish has been accepted on a row already expired, and the
\* row has both columns set
C9_Witness ==
    /\ last.op = "finish" /\ last.ok
    /\ \E i \in 1..Len(table) :
        table[i].uid = last.uid /\ table[i].finished_at # NULL /\ table[i].expired_at # NULL

\* C10: finish and expire change only their own column and only in rows of
\* their uid; uid and started_at of a row never change; has_contributed
\* changes nothing.
C10_Frame ==
    [][/\ \A i \in 1..Len(table) :
            /\ i <= Len(table')
            /\ table'[i].uid = table[i].uid
            /\ table'[i].started_at = table[i].started_at
       /\ \A c \in BagToSet(call) : ReturnStep(c) =>
            /\ c.op = "has_contributed" => table' = table
            /\ c.op \in Updates =>
                /\ Len(table') = Len(table)
                /\ \A i \in 1..Len(table) :
                    /\ table[i].uid # c.uid => table'[i] = table[i]
                    /\ c.op = "finish" => table'[i].expired_at = table[i].expired_at
                    /\ c.op = "expire" => table'[i].finished_at = table[i].finished_at]_vars

\* C10 witness: a finish has written a row while a row of another uid exists
C10_Witness ==
    /\ last.op = "finish" /\ last.ok /\ last.affected > 0
    /\ \E j \in 1..Len(table) : table[j].uid # last.uid
====
